---- MODULE Spec2Model ----
(***************************************************************************)
(* The authentication boundary of the UI: the route gate (middleware), the *)
(* cookie-backed credential store (session, logout, register and hydration *)
(* routes) and the client-side LocalAuthService.                           *)
(*                                                                         *)
(* The repository holds two generations of the gate and of the cookie      *)
(* routes.  One reads and writes the cookies dograh_auth_token and         *)
(* dograh_auth_user, the other dograh_oss_token and dograh_oss_user.  Both *)
(* are modelled, over one browser cookie jar keyed by cookie name.         *)
(***************************************************************************)
EXTENDS Integers, Sequences, FiniteSets, Bags, TLC

(***************************************************************************)
(* Bounds of the model.                                                    *)
(***************************************************************************)
MaxRequests == 2    \* server-side requests that may be in progress at once
MaxFetches == 3     \* hydration fetches the client may issue in one run
MaxCalls == 2       \* client-side service calls started in one run

(***************************************************************************)
(* JavaScript values.  A string slot holds a string or one of the two      *)
(* sentinels below; both sentinels and the empty string are falsy.         *)
(***************************************************************************)
UNDEFINED == "<undefined>"
NULL == "<null>"

Falsy(v) == v \in {UNDEFINED, NULL, ""}

(***************************************************************************)
(* User profiles: a JavaScript value that is an object with the profile's  *)
(* fields (UNDEFINED where the property is missing), or null, or           *)
(* undefined.  A number n is written "#n", so that the number 1 and the    *)
(* string "1" differ.                                                      *)
(***************************************************************************)
ProfileKeys == <<"id", "name", "email", "provider", "organizationId">>

Obj(id, name, email, provider, org) ==
  [kind |-> "object", id |-> id, name |-> name, email |-> email,
   provider |-> provider, organizationId |-> org]

JsNull == [kind |-> "null", id |-> UNDEFINED, name |-> UNDEFINED,
           email |-> UNDEFINED, provider |-> UNDEFINED,
           organizationId |-> UNDEFINED]

JsUndefined == [kind |-> "undefined", id |-> UNDEFINED, name |-> UNDEFINED,
                email |-> UNDEFINED, provider |-> UNDEFINED,
                organizationId |-> UNDEFINED]

JsThrow == [kind |-> "throw", id |-> UNDEFINED, name |-> UNDEFINED,
            email |-> UNDEFINED, provider |-> UNDEFINED,
            organizationId |-> UNDEFINED]

FalsyValue(u) == u.kind \in {"null", "undefined"}

(***************************************************************************)
(* JSON texts, as the user cookie holds them: the members of an object in  *)
(* order, the text null, the empty text, or a text that is not JSON.       *)
(* NoText is the value of a cookie that is not in the jar.                 *)
(***************************************************************************)
NoText == [kind |-> "absent", members |-> << >>]
EmptyText == [kind |-> "empty", members |-> << >>]
NullText == [kind |-> "null", members |-> << >>]
GarbageText == [kind |-> "garbage", members |-> << >>]

FalsyText(t) == t.kind \in {"absent", "empty"}

\* JSON.stringify: an object keeps the properties that are not undefined;
\* null gives the text null; undefined gives no text at all.
JSON_stringify(v) ==
  CASE v.kind = "object" ->
         [kind |-> "object",
          members |-> [i \in 1..Len(SelectSeq(ProfileKeys,
                                     LAMBDA k : v[k] # UNDEFINED)) |->
                         LET k == SelectSeq(ProfileKeys,
                                     LAMBDA kk : v[kk] # UNDEFINED)[i]
                         IN <<k, v[k]>>]]
    [] v.kind = "null" -> NullText
    [] OTHER -> NoText

Member(t, k) ==
  LET hits == SelectSeq(t.members, LAMBDA m : m[1] = k)
  IN IF hits = << >> THEN UNDEFINED ELSE hits[1][2]

\* JSON.parse: the value of the text, or a SyntaxError for the empty text
\* and for a text that is not JSON.
JSON_parse(t) ==
  CASE t.kind = "object" ->
         Obj(Member(t, "id"), Member(t, "name"), Member(t, "email"),
             Member(t, "provider"), Member(t, "organizationId"))
    [] t.kind = "null" -> JsNull
    [] OTHER -> JsThrow

(***************************************************************************)
(* The browser's cookie jar.  A cookie that is not in the jar reads as     *)
(* undefined; a cookie set with maxAge 0 expires at once and leaves the    *)
(* jar; a cookie set with no value is stored with the empty value.         *)
(***************************************************************************)
OSS_TOKEN_COOKIE == "dograh_auth_token"
OSS_USER_COOKIE == "dograh_auth_user"
LEGACY_TOKEN_COOKIE == "dograh_oss_token"
LEGACY_USER_COOKIE == "dograh_oss_user"

TokenCookies == {OSS_TOKEN_COOKIE, LEGACY_TOKEN_COOKIE}
UserCookies == {OSS_USER_COOKIE, LEGACY_USER_COOKIE}

EmptyJar ==
  [c \in TokenCookies \cup UserCookies |->
     IF c \in TokenCookies THEN UNDEFINED ELSE NoText]

SetTokenCookie(j, name, value, maxAge) ==
  [j EXCEPT ![name] = IF maxAge = 0 THEN UNDEFINED
                      ELSE IF value = UNDEFINED THEN "" ELSE value]

SetUserCookie(j, name, text, maxAge) ==
  [j EXCEPT ![name] = IF maxAge = 0 THEN NoText
                      ELSE IF text.kind = "absent" THEN EmptyText ELSE text]

DeleteCookie(j, name) ==
  [j EXCEPT ![name] = IF name \in TokenCookies THEN UNDEFINED ELSE NoText]

(***************************************************************************)
(* Request paths.  A path is the sequence of the chunks of characters that *)
(* make it up, so that a prefix of the sequence is a prefix of the string: *)
(* <<"/auth", "/login", "2">> is the path /auth/login2.                    *)
(***************************************************************************)
StartsWith(s, p) == Len(p) <= Len(s) /\ SubSeq(s, 1, Len(p)) = p

LOGIN_PATH == <<"/auth", "/login">>
SIGNUP_PATH == <<"/auth", "/signup">>
PUBLIC_PATHS == {LOGIN_PATH, SIGNUP_PATH}

LEGACY_SIGN_IN == <<"/sign-in">>
LEGACY_SIGN_UP == <<"/sign-up">>

Paths ==
  {LOGIN_PATH, SIGNUP_PATH, <<"/auth", "/login", "2">>, <<"/auth">>,
   <<"/workflow">>, LEGACY_SIGN_IN, <<"/sign-in", "/x">>}

NoPath == << >>

(***************************************************************************)
(* Responses of the gate: NextResponse.next(), NextResponse.redirect(url), *)
(* or an exception that escapes the middleware.  set is the sequence of    *)
(* the cookies the response sets, each <<name, value, maxAge>>.            *)
(***************************************************************************)
PassThrough == [kind |-> "next", location |-> NoPath, set |-> << >>]
RedirectTo(path) == [kind |-> "redirect", location |-> path, set |-> << >>]
Thrown == [kind |-> "error", location |-> NoPath, set |-> << >>]

THIRTY_DAYS == 60 * 60 * 24 * 30

(***************************************************************************)
(* The gate, src/unnamed/part_000.                                         *)
(***************************************************************************)
\* The value fetchAuthProvider caches and returns for the outcome of its
\* health probe: data.auth_provider || 'local' when res.ok, else 'local'.
ProbeOutcomes ==
  {[kind |-> "ok", auth_provider |-> "local"],
   [kind |-> "ok", auth_provider |-> "stack"],
   [kind |-> "ok", auth_provider |-> UNDEFINED],
   [kind |-> "status", auth_provider |-> UNDEFINED],
   [kind |-> "throw", auth_provider |-> UNDEFINED]}

\* No probe was sent: the provider came from the cache.
NoProbe == [kind |-> "none", auth_provider |-> UNDEFINED]

\* fetchAuthProvider letting a rejected probe escape instead of falling back.
fetchAuthProviderUncaught(outcome) ==
  IF outcome.kind = "ok" /\ ~Falsy(outcome.auth_provider)
  THEN outcome.auth_provider
  ELSE IF outcome.kind = "throw" THEN "<rejected>"
  ELSE "local"

fetchAuthProvider(outcome) ==
  IF outcome.kind = "ok" /\ ~Falsy(outcome.auth_provider)
  THEN outcome.auth_provider
  ELSE "local"

\* getAuthProvider of src/ui/src/lib/auth/config.ts: the value it caches and
\* returns for the outcome of its health probe.
getAuthProvider(outcome) ==
  IF outcome.kind = "ok" /\ ~Falsy(outcome.auth_provider)
  THEN outcome.auth_provider
  ELSE "local"

\* The gate without its provider check: hosted requests are gated too.
middlewareGatesHosted(authProvider, token, pathname) ==
  IF \E p \in PUBLIC_PATHS : StartsWith(pathname, p) THEN PassThrough
  ELSE IF Falsy(token) THEN RedirectTo(LOGIN_PATH)
  ELSE PassThrough

\* The gate matching the allow-list by equality instead of by prefix.
middlewareExactMatch(authProvider, token, pathname) ==
  IF authProvider # "local" THEN PassThrough
  ELSE IF pathname \in PUBLIC_PATHS THEN PassThrough
  ELSE IF Falsy(token) THEN RedirectTo(LOGIN_PATH)
  ELSE PassThrough

\* middleware(request), after fetchAuthProvider has returned authProvider:
\* token is request.cookies.get(OSS_TOKEN_COOKIE)?.value.
middleware(authProvider, token, pathname) ==
  IF authProvider # "local" THEN PassThrough
  ELSE IF \E p \in PUBLIC_PATHS : StartsWith(pathname, p) THEN PassThrough
  ELSE IF Falsy(token) THEN RedirectTo(LOGIN_PATH)
  ELSE PassThrough

(***************************************************************************)
(* The gate, src/ui/src/middleware.ts.  The provider comes from the        *)
(* environment.  The file reads an identifier, token, that it does not     *)
(* declare: evaluating it throws a ReferenceError; a build in which it is  *)
(* bound binds it to the cookie the file names.  Both are outcomes, and    *)
(* the caller of legacyMiddleware chooses between them.                    *)
(***************************************************************************)
REFERENCE_ERROR == "<ReferenceError>"

\* generateOSSToken(): a fresh token, `oss_${Date.now()}_${randomUUID()}`.
GeneratedTokens == {"oss_1_a"}

LegacyProvider(env) ==
  IF Falsy(env.NEXT_PUBLIC_AUTH_PROVIDER) THEN "stack"
  ELSE env.NEXT_PUBLIC_AUTH_PROVIDER

legacyMiddleware(env, token, pathname, newToken) ==
  IF LegacyProvider(env) # "local" THEN PassThrough
  ELSE IF token = REFERENCE_ERROR THEN Thrown
  ELSE
    LET isSignInPage == pathname = LEGACY_SIGN_IN \/ pathname = LEGACY_SIGN_UP
    IN IF Falsy(token) /\ ~isSignInPage
       THEN IF env.NEXT_PUBLIC_LOCAL_AUTH_ENABLED = "true"
            THEN RedirectTo(LEGACY_SIGN_IN)
            ELSE [kind |-> "next", location |-> NoPath,
                  set |-> <<
                    <<LEGACY_TOKEN_COOKIE, newToken, THIRTY_DAYS>>,
                    <<LEGACY_USER_COOKIE,
                      JSON_stringify(Obj(newToken, "Local User", UNDEFINED,
                                         "local", "org_" \o newToken)),
                      THIRTY_DAYS>> >>]
       ELSE PassThrough

\* The browser stores the cookies a response sets.
RECURSIVE ApplySet(_, _)
ApplySet(j, set) ==
  IF Len(set) = 0 THEN j
  ELSE LET c == Head(set)
       IN ApplySet(IF c[1] \in TokenCookies
                   THEN SetTokenCookie(j, c[1], c[2], c[3])
                   ELSE SetUserCookie(j, c[1], c[2], c[3]),
                   Tail(set))

(***************************************************************************)
(* The cookie routes.  Each returns the status it answers, the body's      *)
(* token and user, and the jar once the browser has stored the response's  *)
(* cookies.                                                                *)
(***************************************************************************)
Answer(status, token, user, j) ==
  [status |-> status, token |-> token, user |-> user, jar |-> j]

\* The session route writing the cookie names of the other generation.
sessionPOSTOtherNames(j, body) ==
  IF ~body.valid THEN Answer(500, UNDEFINED, JsUndefined, j)
  ELSE IF Falsy(body.token) THEN Answer(400, UNDEFINED, JsUndefined, j)
  ELSE Answer(200, UNDEFINED, JsUndefined,
              SetUserCookie(
                SetTokenCookie(j, LEGACY_TOKEN_COOKIE, body.token, THIRTY_DAYS),
                LEGACY_USER_COOKIE, JSON_stringify(body.user), THIRTY_DAYS))

\* The session route storing the token and leaving the user cookie alone.
sessionPOSTTokenOnly(j, body) ==
  IF ~body.valid THEN Answer(500, UNDEFINED, JsUndefined, j)
  ELSE IF Falsy(body.token) THEN Answer(400, UNDEFINED, JsUndefined, j)
  ELSE Answer(200, UNDEFINED, JsUndefined,
              SetTokenCookie(j, OSS_TOKEN_COOKIE, body.token, THIRTY_DAYS))

\* The session route without the test of lines 75-77.
sessionPOSTUnchecked(j, body) ==
  IF ~body.valid THEN Answer(500, UNDEFINED, JsUndefined, j)
  ELSE Answer(200, UNDEFINED, JsUndefined,
              SetUserCookie(
                SetTokenCookie(j, OSS_TOKEN_COOKIE, body.token, THIRTY_DAYS),
                OSS_USER_COOKIE, JSON_stringify(body.user), THIRTY_DAYS))

\* POST /api/auth/session, src/unnamed/part_003 lines 72-98.  body.valid is
\* false when request.json() rejects (the exception escapes: 500).
sessionPOST(j, body) ==
  IF ~body.valid THEN Answer(500, UNDEFINED, JsUndefined, j)
  ELSE IF Falsy(body.token) THEN Answer(400, UNDEFINED, JsUndefined, j)
  ELSE Answer(200, UNDEFINED, JsUndefined,
              SetUserCookie(
                SetTokenCookie(j, OSS_TOKEN_COOKIE, body.token, THIRTY_DAYS),
                OSS_USER_COOKIE, JSON_stringify(body.user), THIRTY_DAYS))

\* POST /api/auth/logout, src/unnamed/part_003 lines 7-27.
logoutPOST(j) ==
  Answer(200, UNDEFINED, JsUndefined,
         SetUserCookie(SetTokenCookie(j, OSS_TOKEN_COOKIE, "", 0),
                       OSS_USER_COOKIE, EmptyText, 0))

\* POST /api/auth/logout, src/ui/src/app/api/auth/logout/route.ts.
legacyLogoutPOST(j) ==
  Answer(200, UNDEFINED, JsUndefined,
         DeleteCookie(DeleteCookie(j, LEGACY_TOKEN_COOKIE),
                      LEGACY_USER_COOKIE))

\* GET /api/auth/oss, src/unnamed/part_003 lines 42-64, after getAuthProvider
\* has returned authProvider.  JSON.parse of a user cookie that is not JSON
\* throws, and the exception escapes the handler (500).
ossGET(authProvider, j) ==
  LET token == j[OSS_TOKEN_COOKIE]
      user == j[OSS_USER_COOKIE]
  IN IF authProvider # "local" THEN Answer(400, UNDEFINED, JsUndefined, j)
     ELSE IF Falsy(token) THEN Answer(401, UNDEFINED, JsUndefined, j)
     ELSE IF FalsyText(user)
     THEN Answer(200, token,
                 Obj(token, "Local User", UNDEFINED, "local", UNDEFINED), j)
     ELSE IF JSON_parse(user).kind = "throw"
     THEN Answer(500, UNDEFINED, JsUndefined, j)
     ELSE Answer(200, token, JSON_parse(user), j)

(***************************************************************************)
(* The server-side resolver, src/ui/src/lib/auth/providers/                *)
(* LocalProviderWrapper.tsx lines 88-227.                                  *)
(***************************************************************************)
\* String(v): the digits of a number, the text of undefined or null, a
\* string as it is.
JsString(v) ==
  CASE v = UNDEFINED -> "undefined"
    [] v = NULL -> "null"
    [] v = "#2" -> "2"
    [] v = "#3" -> "3"
    [] v = "#7" -> "7"
    [] OTHER -> v

\* a || b on string slots.
Or(a, b) == IF Falsy(a) THEN b ELSE a

\* getOSSUser with the catch of lines 186-189 removed: the exception of
\* line 177 or 180 escapes.
getOSSUserUncaught(j) ==
  LET userCookie == j[OSS_USER_COOKIE]
      token == j[OSS_TOKEN_COOKIE]
  IN IF ~FalsyText(userCookie)
     THEN LET parsed == JSON_parse(userCookie)
          IN IF parsed.kind = "object"
             THEN Obj(JsString(parsed.id),
                      Or(parsed.name, Or(parsed.email, "Local User")),
                      parsed.email, "local",
                      Or(parsed.organizationId, UNDEFINED))
             ELSE JsThrow
     ELSE IF ~Falsy(token)
     THEN Obj(token, "Local User", UNDEFINED, "local", "org_" \o token)
     ELSE JsNull

\* getOSSUser lines 171-205.  JSON.parse throws on a text that is not JSON
\* and line 180 throws on the value null; both are caught and give null.
\* The cookie holds no organization_id member, so line 184 gives
\* parsed.organizationId or undefined.
getOSSUser(j) ==
  LET userCookie == j[OSS_USER_COOKIE]
      token == j[OSS_TOKEN_COOKIE]
  IN IF ~FalsyText(userCookie)
     THEN LET parsed == JSON_parse(userCookie)
          IN IF parsed.kind = "object"
             THEN Obj(JsString(parsed.id),
                      Or(parsed.name, Or(parsed.email, "Local User")),
                      parsed.email, "local",
                      Or(parsed.organizationId, UNDEFINED))
             ELSE JsNull
     ELSE IF ~Falsy(token)
     THEN Obj(token, "Local User", UNDEFINED, "local", "org_" \o token)
     ELSE JsNull

\* What app.getUser() of the hosted provider gives: a user, null, or an
\* exception.
StackUsers == {Obj("s1", "Stack User", UNDEFINED, "stack", UNDEFINED),
               JsNull, JsThrow}

\* getServerUser with the try and catch of lines 133-146 removed: the
\* exception of app.getUser() escapes.
getServerUserUncaught(authProvider, j, stackUser) ==
  IF authProvider = "stack" THEN stackUser
  ELSE IF authProvider = "local" THEN getOSSUser(j)
  ELSE JsNull

\* getServerUser lines 128-149.
getServerUser(authProvider, j, stackUser) ==
  IF authProvider = "stack"
  THEN IF stackUser.kind = "throw" THEN JsNull ELSE stackUser
  ELSE IF authProvider = "local" THEN getOSSUser(j)
  ELSE JsNull

\* getOSSToken lines 163-166.
getOSSToken(j) == Or(j[OSS_TOKEN_COOKIE], NULL)

\* POST /api/auth/register, src/ui/src/app/api/config/auth/route.ts lines
\* 16-72.  backend.register is the backend's answer to the registration
\* ("ok", a non-success "status", or "throw" when it cannot be reached) and
\* backend.config its answer to the profile fetch.  When the registration
\* succeeded and the profile fetch did not, line 66 reads the body of the
\* registration response a second time, which throws, and the handler
\* answers 500 from its catch.  A rejected registration is answered with
\* the backend's own status.
registerPOST(j, backend) ==
  IF backend.register = "ok" /\ backend.config = "ok"
  THEN LET user == Obj(backend.userData.id, backend.userData.email,
                       UNDEFINED, "local",
                       backend.userData.selected_organization_id)
       IN Answer(200, UNDEFINED, user,
                 SetUserCookie(
                   SetTokenCookie(j, LEGACY_TOKEN_COOKIE,
                                  backend.access_token, THIRTY_DAYS),
                   LEGACY_USER_COOKIE, JSON_stringify(user), THIRTY_DAYS))
  ELSE IF backend.register = "status"
  THEN Answer(backend.status, UNDEFINED, JsUndefined, j)
  ELSE Answer(500, UNDEFINED, JsUndefined, j)

(***************************************************************************)
(* LocalAuthService, src/unnamed/part_005.  What a fetch gives the client: *)
(* "ok" (a 2xx status whose body is JSON), "okBadJson" (a 2xx status whose *)
(* body response.json() rejects), "status" (any other status) or "throw"   *)
(* (the fetch itself rejects).                                             *)
(***************************************************************************)
Response(kind, token, user) == [kind |-> kind, token |-> token, user |-> user]

NetworkError == Response("throw", UNDEFINED, JsUndefined)

ResponseOf(answer) ==
  IF answer.status = 200 THEN Response("ok", answer.token, answer.user)
  ELSE Response("status", UNDEFINED, JsUndefined)

Memory(token, user, ret) ==
  [currentToken |-> token, currentUser |-> user, ret |-> ret]

\* initializeAuth forgetting the memory when the hydration fails.
initializeAuthClearing(token, user, response) ==
  IF response.kind = "ok"
  THEN Memory(response.token, response.user, "void")
  ELSE Memory(NULL, JsNull, "void")

\* initializeAuth lines 30-43, from the response on: a 2xx answer populates
\* the memory, anything else is logged.  Nothing is returned or thrown.
initializeAuth(token, user, response) ==
  IF response.kind = "ok"
  THEN Memory(response.token, response.user, "void")
  ELSE Memory(token, user, "void")

\* login with the json() and fetch rejections left uncaught.
loginUncaught(token, user, response) ==
  IF response.kind = "ok"
  THEN Memory(response.token, response.user, "true")
  ELSE IF response.kind \in {"throw", "okBadJson"}
  THEN Memory(token, user, "throw")
  ELSE Memory(token, user, "false")

\* login forgetting the session in memory when it fails.
loginForgetting(token, user, response) ==
  IF response.kind = "ok"
  THEN Memory(response.token, response.user, "true")
  ELSE Memory(NULL, JsNull, "false")

\* login lines 47-64, from the response on.
login(token, user, response) ==
  IF response.kind = "ok"
  THEN Memory(response.token, response.user, "true")
  ELSE Memory(token, user, "false")

\* register lines 68-85, from the response on.
register(token, user, response) ==
  IF response.kind = "ok"
  THEN Memory(response.token, response.user, "true")
  ELSE Memory(token, user, "false")

\* logout lines 154-155: whatever the POST gave, the memory is cleared.
logout(token, user, response) == Memory(NULL, JsNull, "void")

\* ensureAuth lines 89-94: the promise the caller awaits.  A pending or
\* settled authPromise is awaited as it is; with none and no token a new
\* hydration is started (start is TRUE, and the caller awaits it); else the
\* caller goes on at once (0).
ensureAuth(authPromise, token, fresh) ==
  IF authPromise # 0 THEN [start |-> FALSE, await |-> authPromise]
  ELSE IF Falsy(token) THEN [start |-> TRUE, await |-> fresh]
  ELSE [start |-> FALSE, await |-> 0]

\* getAccessToken giving up without its re-hydration.
NeedsRehydrationNever(token) == FALSE

\* getAccessToken lines 105-109: after ensureAuth, an empty token starts
\* one more hydration.
NeedsRehydration(token) == Falsy(token)

\* getAccessToken lines 111-115.
AccessTokenResult(token) == IF Falsy(token) THEN "" ELSE token

\* isAuthenticated lines 139-141: !!this.currentToken.
isAuthenticated(token) == ~Falsy(token)

\* getCurrentUser lines 131-136.
CurrentUserResult(user) == IF FalsyValue(user) THEN JsNull ELSE user

(***************************************************************************)
(* Inputs.                                                                 *)
(***************************************************************************)
Tokens == {"tok123", "tok456"}

UserA == Obj("u1", "a@b.com", UNDEFINED, "local", UNDEFINED)
UserB == Obj("#2", "b@c.com", "b@c.com", "local", "#7")
Profiles == {UserA, UserB}

SessionBodies ==
  [valid : {TRUE}, token : Tokens \cup {"", UNDEFINED},
   user : Profiles \cup {JsNull, JsUndefined}]
  \cup {[valid |-> FALSE, token |-> UNDEFINED, user |-> JsUndefined]}

\* A value that holds a URL: undefined, null, or a string, which is the
\* sequence of the chunks of characters that make it up.
UndefinedUrl == [kind |-> "undefined", text |-> << >>]
NullUrl == [kind |-> "null", text |-> << >>]
Text(chunks) == [kind |-> "string", text |-> chunks]

Environments ==
  [NEXT_PUBLIC_AUTH_PROVIDER : {UNDEFINED, "local", "stack"},
   NEXT_PUBLIC_LOCAL_AUTH_ENABLED : {UNDEFINED, "true"},
   BACKEND_URL : {UndefinedUrl}]

(***************************************************************************)
(* State.                                                                  *)
(***************************************************************************)
VARIABLES
  build,               \* which middleware file and which logout route is built
  jar,                 \* the browser's cookies
  env,                 \* process.env of the UI server
  cachedAuthProvider,  \* the module variable of src/unnamed/part_000
  configAuthProvider,  \* cachedAuthProvider of src/ui/src/lib/auth/config.ts
  reqs,                \* the requests waiting for their health probe (a bag)
  last,                \* the last request a handler finished, and its answer
  currentToken,        \* LocalAuthService.currentToken
  currentUser,         \* LocalAuthService.currentUser
  authPromise,         \* LocalAuthService.authPromise: a hydration, 0 for null
  hyd,                 \* the hydrations started so far, in order
  calls,               \* the calls of the service's methods so far, in order
  hist,                \* what the last login, register or logout call did
  instance,            \* LocalAuthService.instance: an object, 0 for null
  constructed,         \* what each new LocalAuthService() evaluated to
  interceptorRegistered, \* the module variable of src/ui/src/lib/apiClient.ts
  interceptors,        \* the request interceptors each API client holds
  sent,                \* the requests the API clients handled, in order
  location,            \* window.location.pathname of the browser tab
  page                 \* what the tab is doing, and the redirects so far

clientVars == <<currentToken, currentUser, authPromise, hyd, calls, hist>>

browserVars ==
  <<instance, constructed, interceptorRegistered, interceptors, sent,
    location, page>>

serverVars ==
  <<build, jar, env, cachedAuthProvider, configAuthProvider, reqs, last>>

\* A build has one middleware file and one route at /api/auth/logout; the
\* sources hold two of each.
Gates == {"middleware", "legacyMiddleware"}
LogoutRoutes == {"logout", "legacyLogout"}
Builds == [gate : Gates, logout : LogoutRoutes]

NoEnv == [NEXT_PUBLIC_AUTH_PROVIDER |-> UNDEFINED,
          NEXT_PUBLIC_LOCAL_AUTH_ENABLED |-> UNDEFINED,
          BACKEND_URL |-> UndefinedUrl]

NoLast == [op |-> "none"]

\* The API clients of the browser's bundle: the generated SDK client, and
\* another one made with createClient.
ApiClients == {"client", "other"}

\* No tab is open, and nothing has touched the module of apiClient.ts.
NoTab == [phase |-> "closed", hops |-> 0, wrapper |-> "none",
          signIn |-> "none"]

NoPage ==
  /\ interceptorRegistered = FALSE
  /\ interceptors = [a \in ApiClients |-> 0]
  /\ sent = << >>
  /\ location = NoPath
  /\ page = NoTab

\* The environment is read by the gate of src/ui/src/middleware.ts alone.
ServerInit ==
  /\ build \in Builds
  /\ jar = EmptyJar
  /\ env \in IF build.gate = "legacyMiddleware" THEN Environments ELSE {NoEnv}
  /\ cachedAuthProvider = NULL
  /\ configAuthProvider = NULL
  /\ reqs = EmptyBag
  /\ last = NoLast
  /\ NoPage

Waiting(handler, path, cookies) ==
  [handler |-> handler, path |-> path, cookies |-> cookies]

(***************************************************************************)
(* The gate of src/unnamed/part_000 handling one request.  The request     *)
(* carries the cookies the jar held when the browser sent it.              *)
(***************************************************************************)
GateAnswer(provider, cookies, path, probe) ==
  [op |-> "middleware", provider |-> provider, path |-> path, probe |-> probe,
   token |-> cookies[OSS_TOKEN_COOKIE], read |-> cookies[OSS_TOKEN_COOKIE],
   resp |-> middleware(provider, cookies[OSS_TOKEN_COOKIE], path)]

\* fetchAuthProvider lines 12-14: the provider is cached, and the request
\* is decided without a probe.
MiddlewareCached(path) ==
  /\ build.gate = "middleware"
  /\ ~Falsy(cachedAuthProvider)
  /\ last' = GateAnswer(cachedAuthProvider, jar, path, NoProbe)
  /\ jar' = ApplySet(jar, last'.resp.set)
  /\ UNCHANGED <<build, env, cachedAuthProvider, configAuthProvider, reqs>>
  /\ UNCHANGED browserVars
  /\ UNCHANGED clientVars

\* fetchAuthProvider lines 16-18: nothing is cached, the probe is sent.
MiddlewareProbe(path) ==
  /\ build.gate = "middleware"
  /\ Falsy(cachedAuthProvider)
  /\ BagCardinality(reqs) < MaxRequests
  /\ reqs' = reqs (+) SetToBag({Waiting("middleware", path, jar)})
  /\ UNCHANGED <<build, jar, env, cachedAuthProvider, configAuthProvider, last>>
  /\ UNCHANGED browserVars
  /\ UNCHANGED clientVars

\* fetchAuthProvider lines 19-29, then middleware lines 35-54.
MiddlewareProbeReturn(r, outcome) ==
  /\ BagIn(r, reqs)
  /\ r.handler = "middleware"
  /\ cachedAuthProvider' = fetchAuthProvider(outcome)
  /\ last' = GateAnswer(cachedAuthProvider', r.cookies, r.path, outcome)
  /\ jar' = ApplySet(jar, last'.resp.set)
  /\ reqs' = reqs (-) SetToBag({r})
  /\ UNCHANGED <<build, env, configAuthProvider>>
  /\ UNCHANGED browserVars
  /\ UNCHANGED clientVars

\* The gate of src/ui/src/middleware.ts handling one request.
LegacyMiddleware(path, token, newToken) ==
  /\ build.gate = "legacyMiddleware"
  /\ token \in {REFERENCE_ERROR, jar[LEGACY_TOKEN_COOKIE]}
  /\ last' = [op |-> "legacyMiddleware", provider |-> LegacyProvider(env),
              path |-> path, token |-> jar[LEGACY_TOKEN_COOKIE],
              read |-> token,
              resp |-> legacyMiddleware(env, token, path, newToken)]
  /\ jar' = ApplySet(jar, last'.resp.set)
  /\ UNCHANGED <<build, env, cachedAuthProvider, configAuthProvider, reqs>>
  /\ UNCHANGED browserVars
  /\ UNCHANGED clientVars

(***************************************************************************)
(* The cookie routes handling one request.                                 *)
(***************************************************************************)
RouteAnswer(op, body, answer) ==
  [op |-> op, body |-> body, status |-> answer.status,
   token |-> answer.token, user |-> answer.user]

SessionPost(body) ==
  /\ last' = RouteAnswer("session", body, sessionPOST(jar, body))
  /\ jar' = sessionPOST(jar, body).jar
  /\ UNCHANGED <<build, env, cachedAuthProvider, configAuthProvider, reqs>>
  /\ UNCHANGED browserVars
  /\ UNCHANGED clientVars

LogoutAnswer(route, j) ==
  IF route = "logout" THEN logoutPOST(j) ELSE legacyLogoutPOST(j)

\* POST /api/auth/logout, handled by the logout route of the build.
LogoutPost ==
  /\ last' = RouteAnswer(build.logout, NULL, LogoutAnswer(build.logout, jar))
  /\ jar' = LogoutAnswer(build.logout, jar).jar
  /\ UNCHANGED <<build, env, cachedAuthProvider, configAuthProvider, reqs>>
  /\ UNCHANGED browserVars
  /\ UNCHANGED clientVars

\* POST /api/auth/register reaching the register route.
RegisterPost(backend) ==
  /\ last' = RouteAnswer("register", backend, registerPOST(jar, backend))
  /\ jar' = registerPOST(jar, backend).jar
  /\ UNCHANGED <<build, env, cachedAuthProvider, configAuthProvider, reqs>>
  /\ UNCHANGED browserVars
  /\ UNCHANGED clientVars

\* GET /api/auth/oss reaching the hydration route: getAuthProvider returns
\* the cached provider, or probes the backend and caches what it resolves.
OssGet(outcome) ==
  /\ configAuthProvider' = IF Falsy(configAuthProvider)
                           THEN getAuthProvider(outcome)
                           ELSE configAuthProvider
  /\ last' = RouteAnswer("oss", NULL, ossGET(configAuthProvider', jar))
  /\ UNCHANGED <<build, jar, env, cachedAuthProvider, reqs>>
  /\ UNCHANGED browserVars
  /\ UNCHANGED clientVars

\* A server component calling getServerUser: getAuthProvider returns the
\* cached provider, or probes the backend and caches what it resolves.
GetServerUser(outcome, stackUser) ==
  /\ configAuthProvider' = IF Falsy(configAuthProvider)
                           THEN getAuthProvider(outcome)
                           ELSE configAuthProvider
  /\ configAuthProvider' = "stack" \/ stackUser = JsNull
  /\ last' = [op |-> "getServerUser", provider |-> configAuthProvider',
              user |-> getServerUser(configAuthProvider', jar, stackUser)]
  /\ UNCHANGED <<build, jar, env, cachedAuthProvider, reqs>>
  /\ UNCHANGED browserVars
  /\ UNCHANGED clientVars

\* GET /api/config/auth, src/ui/src/app/api/config/auth/route.ts lines 5-8:
\* the route answers 200 with the provider getAuthProvider returned.
ConfigAnswer(provider, probe) ==
  [op |-> "config", status |-> 200, provider |-> provider, probe |-> probe]

\* getAuthProvider lines 10-12: the provider is cached.
ConfigGetCached ==
  /\ ~Falsy(configAuthProvider)
  /\ last' = ConfigAnswer(configAuthProvider, NoProbe)
  /\ UNCHANGED <<build, jar, env, cachedAuthProvider, configAuthProvider, reqs>>
  /\ UNCHANGED browserVars
  /\ UNCHANGED clientVars

\* getAuthProvider lines 14-18: nothing is cached, the probe is sent.
ConfigGetProbe ==
  /\ Falsy(configAuthProvider)
  /\ BagCardinality(reqs) < MaxRequests
  /\ reqs' = reqs (+) SetToBag({Waiting("config", NoPath, EmptyJar)})
  /\ UNCHANGED <<build, jar, env, cachedAuthProvider, configAuthProvider, last>>
  /\ UNCHANGED browserVars
  /\ UNCHANGED clientVars

\* getAuthProvider lines 19-29, then the route's line 7.
ConfigGetProbeReturn(r, outcome) ==
  /\ BagIn(r, reqs)
  /\ r.handler = "config"
  /\ configAuthProvider' = getAuthProvider(outcome)
  /\ last' = ConfigAnswer(configAuthProvider', outcome)
  /\ reqs' = reqs (-) SetToBag({r})
  /\ UNCHANGED <<build, jar, env, cachedAuthProvider>>
  /\ UNCHANGED browserVars
  /\ UNCHANGED clientVars

(***************************************************************************)
(* The client: one LocalAuthService in one browser tab.                    *)
(***************************************************************************)
vars == <<serverVars, clientVars, browserVars>>

Unused == [state |-> "unused", cookies |-> EmptyJar, kind |-> "none"]

NoCall ==
  [op |-> "none", pc |-> "idle", await |-> 0, ret |-> "void",
   retUser |-> JsUndefined, response |-> NetworkError,
   epoch |-> 0, after |-> "start", expect |-> NULL, early |-> FALSE]

Started == {h \in 1..MaxFetches : hyd[h].state # "unused"}
Made == {c \in 1..MaxCalls : calls[c].op # "none"}

\* A promise is settled when its hydration has run to its end; awaiting no
\* promise at all (0) goes on at once.
Settled(h) == h = 0 \/ hyd[h].state = "settled"

\* A call whose awaited promise is settled goes on in a microtask, before
\* the event loop delivers any further response.
Runnable(c) == calls[c].pc \in {"ensure", "rehydrate"} /\ Settled(calls[c].await)
NoMicrotask == \A c \in 1..MaxCalls : ~Runnable(c)

\* initializeAuth line 32: the hydration fetch leaves with the cookies the
\* jar holds now.
StartHydration(h) ==
  [hyd EXCEPT ![h] = [state |-> "sent", cookies |-> jar, kind |-> "none"]]

\* The constructor has run in the browser (lines 14-25): the instance
\* exists and its first hydration is in flight.
ClientInit ==
  /\ currentToken = NULL
  /\ currentUser = JsNull
  /\ authPromise = 1
  /\ hyd = [h \in 1..MaxFetches |->
              IF h = 1
              THEN [state |-> "sent", cookies |-> jar, kind |-> "none"]
              ELSE Unused]
  /\ calls = [c \in 1..MaxCalls |-> NoCall]
  /\ hist = [epoch |-> 0, state |-> "start", token |-> NULL]
  /\ instance = 1
  /\ constructed = <<1>>

\* The service is not constructed: the server-side specifications.
NoClient ==
  /\ currentToken = NULL
  /\ currentUser = JsNull
  /\ authPromise = 0
  /\ hyd = [h \in 1..MaxFetches |-> Unused]
  /\ calls = [c \in 1..MaxCalls |-> NoCall]
  /\ hist = [epoch |-> 0, state |-> "start", token |-> NULL]
  /\ instance = 0
  /\ constructed = << >>

\* The response of a hydration: GET /api/auth/oss on the cookies the request
\* carried, or a network error.
HydrationResponses(h) ==
  {ResponseOf(ossGET(configAuthProvider, hyd[h].cookies)), NetworkError}

\* A hydration's response arrives and initializeAuth runs to its end.
HydrationDeliver(h, response) ==
  /\ hyd[h].state = "sent"
  /\ NoMicrotask
  /\ response \in HydrationResponses(h)
  /\ currentToken' = initializeAuth(currentToken, currentUser, response).currentToken
  /\ currentUser' = initializeAuth(currentToken, currentUser, response).currentUser
  /\ hyd' = [hyd EXCEPT ![h] = [state |-> "settled", cookies |-> @.cookies,
                                kind |-> response.kind]]
  /\ UNCHANGED browserVars
  /\ UNCHANGED <<serverVars, authPromise, calls, hist>>

NewCall(c, op) ==
  /\ c = Cardinality(Made) + 1
  /\ c <= MaxCalls
  /\ calls[c].op = "none"

\* getAccessToken / getCurrentUser line 103 / 129: await this.ensureAuth().
ReadStart(c, op) ==
  /\ NewCall(c, op)
  /\ LET fresh == Cardinality(Started) + 1
         e == ensureAuth(authPromise, currentToken, fresh)
     IN /\ e.start => fresh <= MaxFetches
        /\ hyd' = IF e.start THEN StartHydration(fresh) ELSE hyd
        /\ authPromise' = IF e.start THEN fresh ELSE authPromise
        /\ calls' = [calls EXCEPT ![c] =
                       [NoCall EXCEPT !.op = op, !.pc = "ensure",
                                      !.await = e.await,
                                      !.epoch = hist.epoch,
                                      !.after = hist.state,
                                      !.expect = hist.token,
                                      !.early = hyd[1].state # "settled"]]
  /\ UNCHANGED browserVars
  /\ UNCHANGED <<serverVars, currentToken, currentUser, hist>>

GetAccessTokenStart(c) == ReadStart(c, "getAccessToken")
GetCurrentUserStart(c) == ReadStart(c, "getCurrentUser")

\* getAccessToken lines 105-115, once ensureAuth has returned.
GetAccessTokenAfterEnsure(c) ==
  /\ calls[c].op = "getAccessToken"
  /\ calls[c].pc = "ensure"
  /\ Settled(calls[c].await)
  /\ LET fresh == Cardinality(Started) + 1
     IN IF NeedsRehydration(currentToken)
        THEN /\ fresh <= MaxFetches
             /\ hyd' = StartHydration(fresh)
             /\ authPromise' = fresh
             /\ calls' = [calls EXCEPT ![c].pc = "rehydrate",
                                       ![c].await = fresh]
        ELSE /\ calls' = [calls EXCEPT ![c].pc = "done",
                                       ![c].ret = AccessTokenResult(currentToken)]
             /\ UNCHANGED <<hyd, authPromise>>
  /\ UNCHANGED browserVars
  /\ UNCHANGED <<serverVars, currentToken, currentUser, hist>>

\* getAccessToken lines 111-115, once the re-hydration has settled.
GetAccessTokenAfterRehydrate(c) ==
  /\ calls[c].op = "getAccessToken"
  /\ calls[c].pc = "rehydrate"
  /\ Settled(calls[c].await)
  /\ calls' = [calls EXCEPT ![c].pc = "done",
                            ![c].ret = AccessTokenResult(currentToken)]
  /\ UNCHANGED browserVars
  /\ UNCHANGED <<serverVars, currentToken, currentUser, authPromise, hyd, hist>>

\* getCurrentUser lines 131-136, once ensureAuth has returned.
GetCurrentUserAfterEnsure(c) ==
  /\ calls[c].op = "getCurrentUser"
  /\ calls[c].pc = "ensure"
  /\ Settled(calls[c].await)
  /\ calls' = [calls EXCEPT ![c].pc = "done",
                            ![c].retUser = CurrentUserResult(currentUser)]
  /\ UNCHANGED browserVars
  /\ UNCHANGED <<serverVars, currentToken, currentUser, authPromise, hyd, hist>>

\* login, register and logout start with their fetch (lines 48, 69, 150).
WriteStart(c, op) ==
  /\ NewCall(c, op)
  /\ calls' = [calls EXCEPT ![c] =
                 [NoCall EXCEPT !.op = op, !.pc = "sent",
                                !.epoch = hist.epoch + 1]]
  /\ hist' = [epoch |-> hist.epoch + 1, state |-> "busy", token |-> NULL]
  /\ UNCHANGED browserVars
  /\ UNCHANGED <<serverVars, currentToken, currentUser, authPromise, hyd>>

LoginStart(c) == WriteStart(c, "login")
RegisterStart(c) == WriteStart(c, "register")
LogoutStart(c) == WriteStart(c, "logout")

\* What the call did, if no other login, register or logout began since.
Outcome(c, state, token) ==
  IF hist.epoch = calls[c].epoch
  THEN [epoch |-> hist.epoch, state |-> state, token |-> token]
  ELSE hist

\* The login endpoint is not part of these sources: its answer is an input.
LoginResponses ==
  {Response("ok", t, u) : t \in Tokens, u \in {UserA}}
  \cup {Response("okBadJson", UNDEFINED, JsUndefined),
        Response("status", UNDEFINED, JsUndefined), NetworkError}

LoginDeliver(c, response) ==
  /\ calls[c].op = "login"
  /\ calls[c].pc = "sent"
  /\ NoMicrotask
  /\ response \in LoginResponses
  /\ LET m == login(currentToken, currentUser, response)
     IN /\ currentToken' = m.currentToken
        /\ currentUser' = m.currentUser
        /\ calls' = [calls EXCEPT ![c].pc = "done", ![c].ret = m.ret,
                                  ![c].response = response]
        /\ hist' = Outcome(c, IF m.ret = "true" THEN "loggedIn" ELSE "busy",
                           IF m.ret = "true" THEN response.token ELSE NULL)
  /\ UNCHANGED browserVars
  /\ UNCHANGED <<serverVars, authPromise, hyd>>

\* What the backend may answer the register route.
Backends ==
  {[register |-> r, config |-> c, status |-> 400, access_token |-> "tok789",
    userData |-> [id |-> "#3", email |-> "c@d.com",
                  selected_organization_id |-> "#7"]] :
     r \in {"ok", "status", "throw"}, c \in {"ok", "status", "throw"}}

\* The register route answers (or the network fails), the browser stores the
\* cookies of the answer, and register runs to its end.
RegisterDeliver(c, backend, reached) ==
  /\ calls[c].op = "register"
  /\ calls[c].pc = "sent"
  /\ NoMicrotask
  /\ LET answer == registerPOST(jar, backend)
         response == IF reached THEN ResponseOf(answer) ELSE NetworkError
         m == register(currentToken, currentUser, response)
     IN /\ jar' = IF reached THEN answer.jar ELSE jar
        /\ currentToken' = m.currentToken
        /\ currentUser' = m.currentUser
        /\ calls' = [calls EXCEPT ![c].pc = "done", ![c].ret = m.ret,
                                  ![c].response = response]
        /\ hist' = Outcome(c, "busy", NULL)
  /\ UNCHANGED browserVars
  /\ UNCHANGED <<build, env, cachedAuthProvider, configAuthProvider, reqs,
                 last, authPromise, hyd>>

\* The logout route of the build answers (or the network fails), the
\* browser stores the cookies of the answer, and logout runs to its end.
LogoutDeliver(c, reached) ==
  /\ calls[c].op = "logout"
  /\ calls[c].pc = "sent"
  /\ NoMicrotask
  /\ LET answer == LogoutAnswer(build.logout, jar)
         response == IF reached THEN ResponseOf(answer) ELSE NetworkError
         m == logout(currentToken, currentUser, response)
     IN /\ jar' = IF reached THEN answer.jar ELSE jar
        /\ currentToken' = m.currentToken
        /\ currentUser' = m.currentUser
        /\ calls' = [calls EXCEPT ![c].pc = "done", ![c].ret = m.ret,
                                  ![c].response = response]
        /\ hist' = Outcome(c, "loggedOut", NULL)
  /\ UNCHANGED browserVars
  /\ UNCHANGED <<build, env, cachedAuthProvider, configAuthProvider, reqs,
                 last, authPromise, hyd>>

(***************************************************************************)
(* The bearer interceptor, src/ui/src/lib/apiClient.ts lines 25-47.  A     *)
(* request is its Authorization header (request.headers.get gives null for *)
(* a header that is not set), the number of calls of the token getter made *)
(* for it, and whether an interceptor rejected it.                         *)
(***************************************************************************)
NoHeader == NULL
Headers == {NoHeader, "", "Basic abc"}

Request(header) == [Authorization |-> header, gets |-> 0, failed |-> FALSE]

\* What the call of getAccessToken() settles to: the getters of the two
\* providers resolve to a token, '' or null; a getter may reject.
Resolves(token) == [kind |-> "resolve", token |-> token]
Rejects == [kind |-> "reject", token |-> NULL]
Getters == {Resolves("tok123"), Resolves(""), Resolves(NULL), Rejects}

\* Line 41: the template `Bearer ${token}`.
Bearer(token) == "Bearer " \o JsString(token)

\* The interceptor with the try and catch of lines 39-44 removed: the
\* rejection of the getter rejects the request.
authInterceptorUncaught(request, getter) ==
  IF ~Falsy(request.Authorization) THEN request
  ELSE IF getter.kind = "resolve"
  THEN [request EXCEPT !.Authorization = Bearer(getter.token),
                       !.gets = @ + 1]
  ELSE [request EXCEPT !.gets = @ + 1, !.failed = TRUE]

\* Lines 35-46: the function handed to interceptors.request.use.
authInterceptor(request, getter) ==
  IF ~Falsy(request.Authorization) THEN request
  ELSE IF getter.kind = "resolve"
  THEN [request EXCEPT !.Authorization = Bearer(getter.token),
                       !.gets = @ + 1]
  ELSE [request EXCEPT !.gets = @ + 1]

\* The client passes the request through its n interceptors in order; a
\* rejection ends the chain.
RECURSIVE Intercept(_, _, _)
Intercept(n, request, getter) ==
  IF n = 0 \/ request.failed THEN request
  ELSE Intercept(n - 1, authInterceptor(request, getter), getter)

\* setupAuthInterceptor without the flag's test of line 32.
setupAuthInterceptorUnguarded(registered, fns, apiClient) ==
  [registered |-> TRUE, fns |-> [fns EXCEPT ![apiClient] = @ + 1]]

\* Lines 31-47: the flag and the interceptors after setupAuthInterceptor.
setupAuthInterceptor(registered, fns, apiClient) ==
  IF registered THEN [registered |-> registered, fns |-> fns]
  ELSE [registered |-> TRUE, fns |-> [fns EXCEPT ![apiClient] = @ + 1]]

\* A component calls setupAuthInterceptor(apiClient, getAccessToken).
SetupAuthInterceptor(apiClient) ==
  /\ interceptors[apiClient] < MaxRequests
  /\ LET after == setupAuthInterceptor(interceptorRegistered, interceptors,
                                       apiClient)
     IN /\ interceptorRegistered' = after.registered
        /\ interceptors' = after.fns
  /\ UNCHANGED <<sent, instance, constructed, location, page>>
  /\ UNCHANGED <<serverVars, clientVars>>

\* An SDK call on apiClient: the request, made with the header the caller
\* gave, passes the client's interceptors and is sent or fails.
Send(apiClient, header, getter) ==
  /\ Len(sent) < MaxRequests
  /\ sent' = Append(sent,
               [client |-> apiClient, given |-> header, getter |-> getter,
                request |-> Intercept(interceptors[apiClient],
                                      Request(header), getter)])
  /\ UNCHANGED <<interceptorRegistered, interceptors, instance, constructed,
                 location, page>>
  /\ UNCHANGED <<serverVars, clientVars>>

(***************************************************************************)
(* One browser tab of a visitor under the local provider wrapper: the      *)
(* document request passes the gate of the build, the page mounts          *)
(* LocalProviderWrapper (LocalProviderWrapper.tsx lines 10-86) and, on     *)
(* /sign-in, SignInClient (SignInClient.tsx lines 18-34).  page.hops       *)
(* counts the redirects the tab has followed.                              *)
(***************************************************************************)
\* pathname.startsWith('/auth/'), line 28: the chunk after /auth begins
\* with a slash.
SlashChunks == {"/login", "/signup", "/x"}

InAuthDirectory(pathname) ==
  /\ Len(pathname) >= 2
  /\ pathname[1] = "/auth"
  /\ pathname[2] \in SlashChunks

\* The tab has sent the request of a document.
Requesting(hops, wrapper) ==
  [phase |-> "request", hops |-> hops, wrapper |-> wrapper, signIn |-> "none"]

\* The tab takes the gate's response: it follows a redirect, shows the
\* error, or mounts the page.  A page reached without a reload keeps the
\* wrapper it has mounted.
Arrive(resp) ==
  /\ resp.kind = "redirect" => page.hops < MaxFetches
  /\ location' = IF resp.kind = "redirect" THEN resp.location ELSE location
  /\ page' =
       IF resp.kind = "redirect" THEN [page EXCEPT !.hops = @ + 1]
       ELSE IF resp.kind = "error" THEN [page EXCEPT !.phase = "error"]
       ELSE [page EXCEPT
               !.phase = "mounted",
               !.wrapper = IF @ = "none" THEN "pending" ELSE @,
               !.signIn = IF location = LEGACY_SIGN_IN
                          THEN "pending" ELSE "none"]

\* The request of the document reaches the gate of src/unnamed/part_000.
DocumentRequest(outcome) ==
  /\ build.gate = "middleware"
  /\ page.phase = "request"
  /\ cachedAuthProvider' = IF Falsy(cachedAuthProvider)
                           THEN fetchAuthProvider(outcome)
                           ELSE cachedAuthProvider
  /\ Arrive(middleware(cachedAuthProvider', jar[OSS_TOKEN_COOKIE], location))
  /\ UNCHANGED <<build, jar, env, configAuthProvider, reqs, last>>
  /\ UNCHANGED <<instance, constructed, interceptorRegistered, interceptors,
                 sent>>
  /\ UNCHANGED clientVars

\* The request of the document reaches the gate of src/ui/src/middleware.ts.
LegacyDocumentRequest(token, newToken) ==
  /\ build.gate = "legacyMiddleware"
  /\ page.phase = "request"
  /\ token \in {REFERENCE_ERROR, jar[LEGACY_TOKEN_COOKIE]}
  /\ LET resp == legacyMiddleware(env, token, location, newToken)
     IN /\ Arrive(resp)
        /\ jar' = ApplySet(jar, resp.set)
  /\ UNCHANGED <<build, env, cachedAuthProvider, configAuthProvider, reqs,
                 last>>
  /\ UNCHANGED <<instance, constructed, interceptorRegistered, interceptors,
                 sent>>
  /\ UNCHANGED clientVars

\* LocalProviderWrapper lines 18-40: the effect's fetch of /api/auth/oss
\* settles.  On 401 outside /auth/ the tab is sent to /auth/login by
\* window.location.href, which reloads the document.
WrapperInitializeAuth(outcome, reached) ==
  /\ page.phase = "mounted"
  /\ page.wrapper = "pending"
  /\ configAuthProvider' = IF reached /\ Falsy(configAuthProvider)
                           THEN getAuthProvider(outcome)
                           ELSE configAuthProvider
  /\ LET status == IF reached THEN ossGET(configAuthProvider', jar).status
                   ELSE 0
     IN IF status = 401 /\ ~InAuthDirectory(location)
        THEN /\ page.hops < MaxFetches
             /\ location' = LOGIN_PATH
             /\ page' = Requesting(page.hops + 1, "none")
        ELSE /\ location' = location
             /\ page' = [page EXCEPT
                           !.wrapper = IF status = 401 THEN "401" ELSE "done"]
  /\ UNCHANGED <<build, jar, env, cachedAuthProvider, reqs, last>>
  /\ UNCHANGED <<instance, constructed, interceptorRegistered, interceptors,
                 sent>>
  /\ UNCHANGED clientVars

\* SignInClient lines 22-26, under the context of LocalProviderWrapper,
\* whose provider is 'local' (line 78): router.replace('/auth/login').
SignInClientEffect ==
  /\ page.phase = "mounted"
  /\ page.signIn = "pending"
  /\ page.hops < MaxFetches
  /\ location' = LOGIN_PATH
  /\ page' = Requesting(page.hops + 1, page.wrapper)
  /\ UNCHANGED serverVars
  /\ UNCHANGED <<instance, constructed, interceptorRegistered, interceptors,
                 sent>>
  /\ UNCHANGED clientVars

(***************************************************************************)
(* new LocalAuthService(), src/unnamed/part_005 lines 9-25.  Objects are   *)
(* numbered in the order of their allocation; 0 is null.                   *)
(***************************************************************************)
\* The constructor without the test of lines 16-18: every construction
\* keeps its own object and initializes it.
constructorUnguarded(inst, this, inBrowser) ==
  [instance |-> this, returned |-> this, hydrate |-> inBrowser]

\* Lines 14-25: the static instance after the constructor, the object the
\* new expression evaluates to, and whether initializeAuth was called.
constructor(inst, this, inBrowser) ==
  IF inst # 0
  THEN [instance |-> inst, returned |-> inst, hydrate |-> FALSE]
  ELSE [instance |-> this, returned |-> this, hydrate |-> inBrowser]

\* A component evaluates new LocalAuthService() in the browser.
Construct ==
  /\ Len(constructed) < MaxCalls
  /\ LET made == constructor(instance, Len(constructed) + 1, TRUE)
         fresh == Cardinality(Started) + 1
     IN /\ instance' = made.instance
        /\ constructed' = Append(constructed, made.returned)
        /\ made.hydrate => fresh <= MaxFetches
        /\ hyd' = IF made.hydrate THEN StartHydration(fresh) ELSE hyd
        /\ authPromise' = IF made.hydrate THEN fresh ELSE authPromise
  /\ UNCHANGED <<currentToken, currentUser, calls, hist>>
  /\ UNCHANGED <<interceptorRegistered, interceptors, sent, location, page>>
  /\ UNCHANGED serverVars

(***************************************************************************)
(* The version route, src/unnamed/part_002 lines 77-123.  The chunks of a  *)
(* URL are the scheme, ://, the first label of the host, and what follows  *)
(* it; '' has no chunk.                                                    *)
(***************************************************************************)
Url(scheme, host, rest) == Text(<<scheme, "://", host>> \o rest)

LOCALHOST_8000 == Url("http", "localhost", <<":", "8000">>)

Urls ==
  {LOCALHOST_8000,
   Url("http", "api", <<":", "8000">>),
   Url("https", "127.0.0.1", << >>),
   Url("http", "localhost", <<"/", "api">>),
   Url("http", "api", <<".example.com">>),
   Url("https", "app.example.com", << >>),
   Url("https", "app.example.com", <<"/", "api">>),
   Url("ftp", "localhost", << >>),
   Url("http", "localhost", <<":", "x">>),
   Text(<< >>)}

\* !url: undefined, null and '' are falsy.
Missing(url) == url.kind \in {"undefined", "null"} \/ url.text = << >>

Digits == {"8000", "80"}

\* INTERNAL_HOST_RE, line 78:
\* /^https?:\/\/(localhost|127\.0\.0\.1|api)(:\d+)?(\/|$)/.
INTERNAL_HOST_RE(text) ==
  /\ Len(text) >= 3
  /\ text[1] \in {"http", "https"}
  /\ text[2] = "://"
  /\ text[3] \in {"localhost", "127.0.0.1", "api"}
  /\ LET rest == SubSeq(text, 4, Len(text))
         afterPort == IF Len(rest) >= 2 /\ rest[1] = ":" /\ rest[2] \in Digits
                      THEN SubSeq(rest, 3, Len(rest))
                      ELSE rest
     IN afterPort = << >> \/ afterPort[1] = "/"

\* Lines 80-82.
isInternalUrl(url) == Missing(url) \/ INTERNAL_HOST_RE(url.text)

\* The outcomes of healthApiV1HealthGet(): a response with data, one
\* without, or an exception.
HealthData(endpoint) ==
  [kind |-> "data", version |-> "1.2.3", backend_api_endpoint |-> endpoint]
NoHealthData ==
  [kind |-> "nodata", version |-> UNDEFINED,
   backend_api_endpoint |-> UndefinedUrl]
HealthThrows ==
  [kind |-> "throw", version |-> UNDEFINED,
   backend_api_endpoint |-> UndefinedUrl]
HealthOutcomes ==
  {HealthData(u) : u \in Urls \cup {NullUrl}}
    \cup {NoHealthData, HealthThrows}

\* GET, lines 84-123: the body of the route's answer.
versionGET(environment, health) ==
  LET apiVersion == CASE health.kind = "data" -> health.version
                      [] health.kind = "throw" -> "unavailable"
                      [] OTHER -> "unknown"
      backendApiEndpoint == IF health.kind = "data"
                            THEN health.backend_api_endpoint ELSE NullUrl
      clientCandidate == IF Missing(environment.BACKEND_URL)
                         THEN backendApiEndpoint
                         ELSE environment.BACKEND_URL
  IN [op |-> "version", api |-> apiVersion,
      backendApiEndpoint |-> backendApiEndpoint,
      clientCandidate |-> clientCandidate,
      clientApiBaseUrl |-> IF isInternalUrl(clientCandidate)
                           THEN LOCALHOST_8000 ELSE clientCandidate]

\* GET /api/config/version reaching the route.
VersionGet(health) ==
  /\ last' = versionGET(env, health)
  /\ UNCHANGED <<build, jar, env, cachedAuthProvider, configAuthProvider, reqs>>
  /\ UNCHANGED browserVars
  /\ UNCHANGED clientVars

(***************************************************************************)
(* The login page, src/unnamed/part_004 lines 13-46, in a tab that shows   *)
(* /auth/login.  The login endpoint is not part of these sources: what     *)
(* loginApiV1AuthLoginPost gives is an input.                              *)
(***************************************************************************)
AFTER_SIGN_IN == <<"/after-sign-in">>

LoginData(token, user) == [kind |-> "data", token |-> token, user |-> user]
LoginError == [kind |-> "error", token |-> UNDEFINED, user |-> JsUndefined]
LoginNoData == [kind |-> "nodata", token |-> UNDEFINED, user |-> JsUndefined]
LoginThrows == [kind |-> "throw", token |-> UNDEFINED, user |-> JsUndefined]

LoginResults ==
  {LoginData(t, u) : t \in Tokens, u \in Profiles}
    \cup {LoginError, LoginNoData, LoginThrows}

\* Lines 22-45, from the login call's result on: what the page does next.
\* With data it posts the session and waits for the answer; else it shows
\* a toast and stays.
handleSubmit(res) ==
  IF res.kind = "data" THEN "session" ELSE "mounted"

\* The form is submitted: line 23, the login call leaves.
HandleSubmit ==
  /\ page.phase = "mounted"
  /\ location = LOGIN_PATH
  /\ page' = [page EXCEPT !.phase = "login"]
  /\ UNCHANGED <<instance, constructed, interceptorRegistered, interceptors,
                 sent, location>>
  /\ UNCHANGED <<serverVars, clientVars>>

\* Lines 23-38: the login call settles; on success the session request
\* leaves with the token and the user of the answer.
LoginReturn(res) ==
  /\ page.phase = "login"
  /\ last' = [op |-> "loginApi",
              body |-> [valid |-> TRUE, token |-> res.token, user |-> res.user],
              status |-> IF res.kind = "data" THEN 200 ELSE 0,
              token |-> res.token, user |-> res.user]
  /\ page' = [page EXCEPT !.phase = handleSubmit(res)]
  /\ UNCHANGED <<build, jar, env, cachedAuthProvider, configAuthProvider, reqs>>
  /\ UNCHANGED <<instance, constructed, interceptorRegistered, interceptors,
                 sent, location>>
  /\ UNCHANGED clientVars

\* Lines 34-45: the session request settles.  An answer, whatever its
\* status, is followed by line 40; a rejected fetch by the toast of the
\* catch.
SessionReturn(reached) ==
  /\ page.phase = "session"
  /\ IF reached
     THEN /\ jar' = sessionPOST(jar, last.body).jar
          /\ last' = RouteAnswer("session", last.body,
                                 sessionPOST(jar, last.body))
          /\ location' = AFTER_SIGN_IN
          /\ page' = Requesting(0, "none")
     ELSE /\ page' = [page EXCEPT !.phase = "mounted"]
          /\ UNCHANGED <<jar, last, location>>
  /\ UNCHANGED <<build, env, cachedAuthProvider, configAuthProvider, reqs>>
  /\ UNCHANGED <<instance, constructed, interceptorRegistered, interceptors,
                 sent>>
  /\ UNCHANGED clientVars

(***************************************************************************)
(* Specifications.                                                         *)
(***************************************************************************)
\* The two gates and the routes that change the cookies they read.
GateInit == ServerInit /\ NoClient

GateTokens == {"tok123", "", UNDEFINED}

GateNext ==
  \/ \E path \in Paths : MiddlewareCached(path)
  \/ \E path \in Paths : MiddlewareProbe(path)
  \/ \E r \in BagToSet(reqs), outcome \in ProbeOutcomes :
       MiddlewareProbeReturn(r, outcome)
  \/ \E path \in Paths, token \in GeneratedTokens \cup {UNDEFINED, REFERENCE_ERROR},
        newToken \in GeneratedTokens :
       LegacyMiddleware(path, token, newToken)
  \/ \E body \in SessionBodies :
       body.user = UserA /\ body.token \in GateTokens /\ SessionPost(body)
  \/ LogoutPost

Spec == GateInit /\ [][GateNext]_vars

\* The two provider resolvers, each called by its handler.
ResolverInit == ServerInit /\ NoClient /\ build.gate = "middleware"

ResolverNext ==
  \/ \E path \in {LOGIN_PATH, <<"/workflow">>} : MiddlewareCached(path)
  \/ \E path \in {LOGIN_PATH, <<"/workflow">>} : MiddlewareProbe(path)
  \/ \E r \in BagToSet(reqs), outcome \in ProbeOutcomes :
       MiddlewareProbeReturn(r, outcome)
  \/ ConfigGetCached
  \/ ConfigGetProbe
  \/ \E r \in BagToSet(reqs), outcome \in ProbeOutcomes :
       ConfigGetProbeReturn(r, outcome)

ResolverSpec == ResolverInit /\ [][ResolverNext]_vars

\* The cookie routes.
StoreInit == ServerInit /\ NoClient /\ build.gate = "middleware"

StoreNext ==
  \/ \E body \in SessionBodies : SessionPost(body)
  \/ LogoutPost
  \/ \E backend \in Backends : RegisterPost(backend)
  \/ \E outcome \in ProbeOutcomes : OssGet(outcome)
  \/ \E outcome \in ProbeOutcomes, stackUser \in StackUsers :
       GetServerUser(outcome, stackUser)

StoreSpec == StoreInit /\ [][StoreNext]_vars

\* The readers of the cookies.  A request carries whatever cookies the
\* browser sends: any token, and any text as the user cookie.
RequestJars ==
  {[EmptyJar EXCEPT ![OSS_TOKEN_COOKIE] = token, ![OSS_USER_COOKIE] = text] :
     token \in Tokens \cup {"", UNDEFINED},
     text \in {NoText, EmptyText, NullText, GarbageText}
               \cup {JSON_stringify(u) : u \in Profiles}}

IdentityInit ==
  /\ build \in {b \in Builds : b.gate = "middleware" /\ b.logout = "logout"}
  /\ jar \in RequestJars
  /\ env = NoEnv
  /\ cachedAuthProvider = NULL
  /\ configAuthProvider = NULL
  /\ reqs = EmptyBag
  /\ last = NoLast
  /\ NoClient
  /\ NoPage

IdentityNext ==
  \/ \E outcome \in ProbeOutcomes, stackUser \in StackUsers :
       GetServerUser(outcome, stackUser)
  \/ \E outcome \in ProbeOutcomes : OssGet(outcome)

IdentitySpec == IdentityInit /\ [][IdentityNext]_vars

\* The client and the routes it calls.  The browser may hold the cookies of
\* a session when the service is constructed.
SessionJar(token, user) ==
  sessionPOST(EmptyJar, [valid |-> TRUE, token |-> token, user |-> user]).jar

ClientSpecInit ==
  /\ build \in {b \in Builds : b.gate = "middleware"}
  /\ jar \in {EmptyJar, SessionJar("tok123", UserA)}
  /\ env = NoEnv
  /\ cachedAuthProvider = NULL
  /\ configAuthProvider = "local"
  /\ reqs = EmptyBag
  /\ last = NoLast
  /\ ClientInit
  /\ NoPage

ClientNext ==
  \/ \E h \in 1..MaxFetches :
       \E response \in HydrationResponses(h) : HydrationDeliver(h, response)
  \/ \E c \in 1..MaxCalls : GetAccessTokenStart(c)
  \/ \E c \in 1..MaxCalls : GetAccessTokenAfterEnsure(c)
  \/ \E c \in 1..MaxCalls : GetAccessTokenAfterRehydrate(c)
  \/ \E c \in 1..MaxCalls : GetCurrentUserStart(c)
  \/ \E c \in 1..MaxCalls : GetCurrentUserAfterEnsure(c)
  \/ \E c \in 1..MaxCalls : LoginStart(c)
  \/ \E c \in 1..MaxCalls, response \in LoginResponses : LoginDeliver(c, response)
  \/ \E c \in 1..MaxCalls : RegisterStart(c)
  \/ \E c \in 1..MaxCalls, backend \in Backends, reached \in BOOLEAN :
       RegisterDeliver(c, backend, reached)
  \/ \E c \in 1..MaxCalls : LogoutStart(c)
  \/ \E c \in 1..MaxCalls, reached \in BOOLEAN : LogoutDeliver(c, reached)

ClientSpec == ClientSpecInit /\ [][ClientNext]_vars

\* The API clients of one browser process, before any component has run.
ApiInit == ServerInit /\ NoClient /\ build.gate = "middleware"
             /\ build.logout = "logout"

ApiNext ==
  \/ \E a \in ApiClients : SetupAuthInterceptor(a)
  \/ \E a \in ApiClients, header \in Headers, getter \in Getters :
       Send(a, header, getter)

ApiSpec == ApiInit /\ [][ApiNext]_vars

\* A visitor opens a path in a new tab, with or without the cookies of a
\* session.
NavInit ==
  /\ build \in {b \in Builds : b.logout = "logout"}
  /\ jar \in {EmptyJar, SessionJar("tok123", UserA)}
  /\ env \in IF build.gate = "legacyMiddleware" THEN Environments ELSE {NoEnv}
  /\ cachedAuthProvider = NULL
  /\ configAuthProvider = NULL
  /\ reqs = EmptyBag
  /\ last = NoLast
  /\ NoClient
  /\ interceptorRegistered = FALSE
  /\ interceptors = [a \in ApiClients |-> 0]
  /\ sent = << >>
  /\ location \in Paths
  /\ page = Requesting(0, "none")

NavNext ==
  \/ \E outcome \in ProbeOutcomes : DocumentRequest(outcome)
  \/ \E token \in GeneratedTokens \cup {UNDEFINED, REFERENCE_ERROR},
        newToken \in GeneratedTokens :
       LegacyDocumentRequest(token, newToken)
  \/ \E outcome \in ProbeOutcomes, reached \in BOOLEAN :
       WrapperInitializeAuth(outcome, reached)
  \/ SignInClientEffect

NavSpec == NavInit /\ [][NavNext]_vars

\* The client process from its start: nothing is constructed, and the
\* methods are called on what a construction returned.
LifecycleInit ==
  /\ build \in {b \in Builds : b.gate = "middleware" /\ b.logout = "logout"}
  /\ jar \in {EmptyJar, SessionJar("tok123", UserA)}
  /\ env = NoEnv
  /\ cachedAuthProvider = NULL
  /\ configAuthProvider = "local"
  /\ reqs = EmptyBag
  /\ last = NoLast
  /\ NoClient
  /\ NoPage

LifecycleNext ==
  \/ Construct
  \/ \E h \in 1..MaxFetches :
       \E response \in HydrationResponses(h) : HydrationDeliver(h, response)
  \/ \E c \in 1..MaxCalls : instance # 0 /\ GetAccessTokenStart(c)
  \/ \E c \in 1..MaxCalls : GetAccessTokenAfterEnsure(c)
  \/ \E c \in 1..MaxCalls : GetAccessTokenAfterRehydrate(c)

LifecycleSpec == LifecycleInit /\ [][LifecycleNext]_vars

\* The version route under every BACKEND_URL.
VersionInit ==
  /\ build \in {b \in Builds : b.gate = "middleware" /\ b.logout = "logout"}
  /\ jar = EmptyJar
  /\ env \in {[NoEnv EXCEPT !.BACKEND_URL = u] :
                u \in Urls \cup {UndefinedUrl}}
  /\ cachedAuthProvider = NULL
  /\ configAuthProvider = NULL
  /\ reqs = EmptyBag
  /\ last = NoLast
  /\ NoClient
  /\ NoPage

VersionNext == \E health \in HealthOutcomes : VersionGet(health)

VersionSpec == VersionInit /\ [][VersionNext]_vars

\* A visitor without cookies on the login page.
SignInInit ==
  /\ build \in {b \in Builds : b.logout = "logout"}
  /\ jar = EmptyJar
  /\ env \in IF build.gate = "legacyMiddleware" THEN Environments ELSE {NoEnv}
  /\ cachedAuthProvider = NULL
  /\ configAuthProvider = NULL
  /\ reqs = EmptyBag
  /\ last = NoLast
  /\ NoClient
  /\ interceptorRegistered = FALSE
  /\ interceptors = [a \in ApiClients |-> 0]
  /\ sent = << >>
  /\ location = LOGIN_PATH
  /\ page = [phase |-> "mounted", hops |-> 0, wrapper |-> "pending",
             signIn |-> "none"]

SignInNext ==
  \/ HandleSubmit
  \/ \E res \in LoginResults : LoginReturn(res)
  \/ \E reached \in BOOLEAN : SessionReturn(reached)
  \/ \E outcome \in ProbeOutcomes : DocumentRequest(outcome)
  \/ \E token \in GeneratedTokens \cup {UNDEFINED, REFERENCE_ERROR},
        newToken \in GeneratedTokens :
       LegacyDocumentRequest(token, newToken)
  \/ \E outcome \in ProbeOutcomes, reached \in BOOLEAN :
       WrapperInitializeAuth(outcome, reached)

SignInSpec == SignInInit /\ [][SignInNext]_vars

(***************************************************************************)
(* The route gate.                                                         *)
(***************************************************************************)
GateDecided == last.op \in Gates

\* The allow-list of each gate, and the path it redirects to.
AllowListed(gate, path) ==
  IF gate = "middleware"
  THEN \E p \in PUBLIC_PATHS : StartsWith(path, p)
  ELSE path \in {LEGACY_SIGN_IN, LEGACY_SIGN_UP}

SignInPath(gate) == IF gate = "middleware" THEN LOGIN_PATH ELSE LEGACY_SIGN_IN

Passed(resp) == resp.kind = "next"
SetsNoCookie(resp) ==
  \A i \in 1..Len(resp.set) : resp.set[i][1] \notin TokenCookies \cup UserCookies

\* C1: a request handled by either gate while the resolved provider is not
\* 'local' is passed through, never redirected, whatever its path and
\* whether or not it carries the token cookie.
C1_HostedPassesThrough ==
  (GateDecided /\ last.provider # "local") => Passed(last.resp)

\* A hosted request with no token cookie and a gated path was handled by the
\* gate of part_000.
C1_Witness ==
  /\ last.op = "middleware"
  /\ last.provider = "stack"
  /\ Falsy(last.token)
  /\ last.path = <<"/workflow">>
  /\ Passed(last.resp)

\* C2: under the 'local' provider a request whose path is not on the gate's
\* allow-list is redirected to the sign-in path when it carries no token
\* cookie and passed through when it carries one.
C2_LocalGating ==
  (GateDecided /\ last.provider = "local" /\ ~AllowListed(last.op, last.path))
    => IF Falsy(last.token)
       THEN last.resp.kind = "redirect"
            /\ last.resp.location = SignInPath(last.op)
       ELSE Passed(last.resp)

\* C3: under the 'local' provider the gate of part_000 passes through every
\* request whose path begins with an entry of PUBLIC_PATHS, with or without
\* a token cookie.
C3_PublicPrefixPasses ==
  (/\ last.op = "middleware"
   /\ last.provider = "local"
   /\ \E p \in PUBLIC_PATHS : StartsWith(last.path, p))
    => Passed(last.resp)

\* A local request with no token cookie for /auth/login2, which begins with
\* /auth/login and is not equal to it, was passed through.
C3_Witness ==
  /\ last.op = "middleware"
  /\ last.provider = "local"
  /\ last.path = <<"/auth", "/login", "2">>
  /\ Falsy(last.token)
  /\ Passed(last.resp)

GateTokenCookie ==
  IF build.gate = "middleware" THEN OSS_TOKEN_COOKIE ELSE LEGACY_TOKEN_COOKIE

\* C7: once the logout route has handled a POST, the token cookie and the
\* user cookie that the gate, the hydration route and the server-side
\* resolver read are gone from the jar, and the route has answered 200.
C7_LogoutClearsCookies ==
  last.op \in LogoutRoutes =>
    /\ last.status = 200
    /\ jar[GateTokenCookie] = UNDEFINED
    /\ jar[OSS_TOKEN_COOKIE] = UNDEFINED
    /\ jar[OSS_USER_COOKIE] = NoText

\* C8: once the session route has stored a token and a user profile, the
\* hydration route, reading the jar in a fresh request under the 'local'
\* provider, answers 200 with that token and that profile.
C8_RoundTrip ==
  (last.op = "session" /\ last.status = 200 /\ last.body.user.kind = "object")
    => LET got == ossGET("local", jar)
       IN /\ got.status = 200
          /\ got.token = last.body.token
          /\ got.user = last.body.user

\* The session route has stored a profile that has an e-mail address, a
\* numeric id and an organization, over the cookies of another session.
C8_Witness ==
  /\ last.op = "session"
  /\ last.status = 200
  /\ last.body.user = UserB
  /\ last.body.token = "tok456"
  /\ jar[OSS_TOKEN_COOKIE] = "tok456"
  /\ ossGET("local", jar).user = UserB

(***************************************************************************)
(* The client service.                                                     *)
(***************************************************************************)
Finished(c, op) == calls[c].op = op /\ calls[c].pc = "done"

\* C5: when two getAccessToken calls were both made before the first
\* hydration completed and both have returned, one hydration fetch was
\* issued in all, whatever the hydration endpoint answered.
C5_OneFetch ==
  (\A c \in 1..2 : Finished(c, "getAccessToken") /\ calls[c].early)
    => Cardinality(Started) = 1

\* C6: a getCurrentUser call made after logout has returned, with no login,
\* register or logout begun since, returns null.
C6_NullAfterLogout ==
  \A c \in 1..MaxCalls :
    (/\ Finished(c, "getCurrentUser")
     /\ calls[c].after = "loggedOut"
     /\ hist.epoch = calls[c].epoch)
      => calls[c].retUser = JsNull

\* C9: a getAccessToken call made after login has returned true with token
\* t, with no login, register or logout begun since, returns t.
C9_TokenAfterLogin ==
  \A c \in 1..MaxCalls :
    (/\ Finished(c, "getAccessToken")
     /\ calls[c].after = "loggedIn"
     /\ hist.epoch = calls[c].epoch)
      => calls[c].ret = calls[c].expect

\* C10: a login or register call that has ended has returned true or false
\* and thrown nothing; it has returned false on every response that is not
\* a success and on a network error, and true only on a success response.
C10_NeverThrows ==
  \A c \in 1..MaxCalls :
    (Finished(c, "login") \/ Finished(c, "register"))
      => /\ calls[c].ret \in {"true", "false"}
         /\ calls[c].response.kind \in {"status", "throw"}
              => calls[c].ret = "false"
         /\ calls[c].ret = "true" => calls[c].response.kind = "ok"

\* A login whose fetch was rejected has returned false, and a register
\* answered with a success has returned true.
C10_Witness ==
  /\ Finished(1, "login")
  /\ calls[1].response = NetworkError
  /\ calls[1].ret = "false"
  /\ Finished(2, "register")
  /\ calls[2].response.kind = "ok"
  /\ calls[2].ret = "true"

\* The call c ends in this step.
Returns(c, op) ==
  calls[c].op = op /\ calls[c].pc # "done" /\ calls'[c].pc = "done"

\* C11: when register returns true, the token in memory is the non-empty
\* token of the new session, so that isAuthenticated() is true at once.
C11_AuthenticatedAfterRegister ==
  [][\A c \in 1..MaxCalls :
       (Returns(c, "register") /\ calls'[c].ret = "true")
         => isAuthenticated(currentToken')]_vars

\* C12: a getAccessToken call goes on only when the hydration it awaits has
\* settled; with the token still empty it then starts one hydration of its
\* own and awaits it, and when that one has settled it returns the token,
\* or the empty string if there is none, starting no further fetch.
C12_OneRehydration ==
  [][\A c \in 1..MaxCalls :
       calls[c].op = "getAccessToken" =>
         /\ calls'[c] # calls[c] => Settled(calls[c].await)
         /\ (calls[c].pc = "ensure" /\ calls'[c].pc # "ensure") =>
              IF Falsy(currentToken)
              THEN /\ calls'[c].pc = "rehydrate"
                   /\ Cardinality(Started') = Cardinality(Started) + 1
                   /\ hyd'[calls'[c].await].state = "sent"
              ELSE /\ calls'[c].pc = "done"
                   /\ calls'[c].ret = currentToken
                   /\ Started' = Started
         /\ (calls[c].pc = "rehydrate" /\ calls'[c].pc # "rehydrate") =>
              /\ calls'[c].pc = "done"
              /\ calls'[c].ret = (IF Falsy(currentToken) THEN "" ELSE currentToken)
              /\ Started' = Started
         /\ calls[c].pc = "done" => calls'[c] = calls[c]]_vars

\* A call has awaited the first hydration, started the second one itself,
\* and returned the empty string when that one brought no token either.
C12_Witness ==
  /\ Finished(1, "getAccessToken")
  /\ calls[1].ret = ""
  /\ calls[1].await = 2
  /\ Started = {1, 2}
  /\ hyd[2].state = "settled"

\* C13: a getCurrentUser call returns null only after a re-hydration of its
\* own: once the hydration it awaited has settled with the user in memory
\* still empty, it starts one more hydration and awaits it before it returns.
C13_RehydratesBeforeNull ==
  [][\A c \in 1..MaxCalls :
       (Returns(c, "getCurrentUser") /\ calls'[c].retUser = JsNull)
         => calls[c].pc = "rehydrate"]_vars

(***************************************************************************)
(* The provider resolvers.                                                 *)
(***************************************************************************)
Resolved == last.op \in {"middleware", "config"}

\* C14: every call of a resolver returns a provider: the one the backend
\* reported when the health probe succeeded and reported one, and 'local'
\* when the probe was rejected or answered a status that is not a success.
C14_AlwaysDecides ==
  Resolved =>
    /\ last.provider \in {"local", "stack"}
    /\ (last.probe.kind = "ok" /\ ~Falsy(last.probe.auth_provider))
         => last.provider = last.probe.auth_provider
    /\ last.probe.kind \in {"status", "throw"} => last.provider = "local"

\* The probe of the config route was rejected and the route answered
\* 'local'.
C14_Witness ==
  /\ last.op = "config"
  /\ last.probe.kind = "throw"
  /\ last.provider = "local"
  /\ last.status = 200

Resolvers == {"middleware", "config"}

\* The health probes of a resolver that are in flight.
InFlight(h, bag) == {r \in BagToSet(bag) : r.handler = h}

\* The module variable of the resolver's file.
CacheOf(h, part000, config) == IF h = "middleware" THEN part000 ELSE config

\* C15: a resolver sends a health probe only when it has none in flight and
\* none has returned, so that one probe is sent in all and every other call
\* is served from the memoized value.
C15_OneProbe ==
  [][\A h \in Resolvers :
       (\E r \in InFlight(h, reqs') : CopiesIn(r, reqs') > CopiesIn(r, reqs))
         => /\ InFlight(h, reqs) = {}
            /\ Falsy(CacheOf(h, cachedAuthProvider, configAuthProvider))]_vars

\* C16: once a resolver has returned a provider, which is the value it has
\* memoized, every later call of it returns the same provider.
C16_NeverFlips ==
  [][\A h \in Resolvers :
       LET before == CacheOf(h, cachedAuthProvider, configAuthProvider)
           after == CacheOf(h, cachedAuthProvider', configAuthProvider')
       IN ~Falsy(before) => after = before]_vars

(***************************************************************************)
(* The cookies as a pair.                                                  *)
(***************************************************************************)
\* The token cookie and the user cookie of each of the two generations.
CookiePairs ==
  {<<OSS_TOKEN_COOKIE, OSS_USER_COOKIE>>,
   <<LEGACY_TOKEN_COOKIE, LEGACY_USER_COOKIE>>}

InJar(name) ==
  IF name \in TokenCookies THEN jar[name] # UNDEFINED ELSE jar[name] # NoText

\* C17: after any sequence of session, register and logout requests the
\* token cookie and the user cookie of a pair are both in the jar or both
\* out of it.
C17_CookiePair ==
  \A pair \in CookiePairs : InJar(pair[1]) <=> InJar(pair[2])

\* The logout route has cleared the pair the session route had stored,
\* while the pair the register route stored is in the jar.
C17_Witness ==
  /\ last.op = "logout"
  /\ ~InJar(OSS_TOKEN_COOKIE)
  /\ ~InJar(OSS_USER_COOKIE)
  /\ jar[LEGACY_TOKEN_COOKIE] = "tok789"
  /\ jar[LEGACY_USER_COOKIE].kind = "object"

(***************************************************************************)
(* The server-side resolver.                                               *)
(***************************************************************************)
\* C18: whenever getServerUser has run under the 'local' provider on a jar
\* that holds the token cookie, it has returned a user profile, not null.
C18_TokenImpliesUser ==
  (/\ last.op = "getServerUser"
   /\ last.provider = "local"
   /\ ~Falsy(jar[OSS_TOKEN_COOKIE]))
    => last.user.kind = "object"

\* C19: when the backend has accepted a registration and the profile fetch
\* that follows has failed, the register route has stored the token cookie
\* of the new session together with a user profile.
C19_DegradedProfileStored ==
  (/\ last.op = "register"
   /\ last.body.register = "ok"
   /\ last.body.config # "ok")
    => /\ jar[LEGACY_TOKEN_COOKIE] = last.body.access_token
       /\ jar[LEGACY_USER_COOKIE].kind = "object"

\* C20: under the 'local' provider, when the user cookie holds a text that
\* is not JSON, getServerUser returns null and throws nothing, with or
\* without a token cookie.
C20_GarbageGivesNull ==
  (/\ last.op = "getServerUser"
   /\ last.provider = "local"
   /\ jar[OSS_USER_COOKIE] = GarbageText)
    => last.user = JsNull

\* getServerUser has returned null on a jar that holds a token and a user
\* cookie that is not JSON.
C20_Witness ==
  /\ last.op = "getServerUser"
  /\ last.provider = "local"
  /\ jar[OSS_USER_COOKIE] = GarbageText
  /\ jar[OSS_TOKEN_COOKIE] = "tok123"
  /\ last.user = JsNull

(***************************************************************************)
(* The hydration route.                                                    *)
(***************************************************************************)
\* C21: whatever the cookies and the provider, the hydration route answers
\* 200 with the token when the token cookie is present and 401 when it is
\* not, and no other status.
C21_Only200Or401 ==
  last.op = "oss" =>
    IF Falsy(jar[OSS_TOKEN_COOKIE])
    THEN last.status = 401
    ELSE last.status = 200 /\ last.token = jar[OSS_TOKEN_COOKIE]

(***************************************************************************)
(* The bearer interceptor.                                                 *)
(***************************************************************************)
RECURSIVE Total(_, _)
Total(f, S) ==
  IF S = {} THEN 0
  ELSE LET a == CHOOSE x \in S : TRUE IN f[a] + Total(f, S \ {a})

Registered == Total(interceptors, ApiClients)

\* C22: whatever calls of setupAuthInterceptor were made, the clients of
\* the process hold one request interceptor in all once a call was made and
\* none before, and no request sent had the token getter called, and so a
\* bearer header attached, more than once.
C22_RegisteredOnce ==
  /\ Registered = (IF interceptorRegistered THEN 1 ELSE 0)
  /\ \A i \in 1..Len(sent) : sent[i].request.gets <= 1

\* A request passed the one interceptor and got its bearer header.
C22_Witness ==
  /\ interceptorRegistered
  /\ \E i \in 1..Len(sent) :
       /\ interceptors[sent[i].client] = 1
       /\ sent[i].request.gets = 1
       /\ sent[i].request.Authorization = Bearer("tok123")

\* C23: a request that was made with an Authorization header set leaves the
\* interceptor with that header and without a call of the token getter.
C23_ExplicitHeaderKept ==
  \A i \in 1..Len(sent) :
    sent[i].given # NoHeader =>
      /\ sent[i].request.Authorization = sent[i].given
      /\ sent[i].request.gets = 0

\* C24: a request for which the token getter rejected is sent all the
\* same, with the header it was made with and no bearer header; no request
\* is failed by the interceptor.
C24_RejectionLetsRequestPass ==
  \A i \in 1..Len(sent) :
    /\ ~sent[i].request.failed
    /\ (sent[i].getter = Rejects /\ sent[i].request.gets > 0) =>
         sent[i].request.Authorization = sent[i].given

\* The getter was called for a request without a header, and rejected.
C24_Witness ==
  \E i \in 1..Len(sent) :
    /\ sent[i].getter = Rejects
    /\ sent[i].request.gets = 1
    /\ sent[i].given = NoHeader
    /\ sent[i].request.Authorization = NoHeader

C26_SingleInstance ==
  /\ [](\A i \in 1..Len(constructed) : constructed[i] = instance)
  /\ [][Len(constructed') > Len(constructed) =>
          IF instance = 0
          THEN Cardinality(Started') = Cardinality(Started) + 1
          ELSE UNCHANGED <<instance, clientVars>>]_vars

\* A second construction came after the first hydration had filled the
\* memory, and returned the first object.
C26_Witness ==
  /\ Len(constructed) = 2
  /\ constructed[2] = constructed[1]
  /\ currentToken = "tok123"
  /\ Cardinality(Started) = 1

(***************************************************************************)
(* Who writes the cookies.                                                 *)
(***************************************************************************)
CookieWriters == {"session", "register"} \cup LogoutRoutes

C28_InternalGivesNull ==
  last.op = "version" =>
    last.clientApiBaseUrl = IF isInternalUrl(last.clientCandidate)
                            THEN NullUrl ELSE last.clientCandidate

(***************************************************************************)
(* Failed hydrations.                                                      *)
(***************************************************************************)
FailsNow(h) ==
  hyd[h].state = "sent" /\ hyd'[h].state = "settled" /\ hyd'[h].kind # "ok"

Reads == {"getAccessToken", "getCurrentUser"}

\* C29: the step in which a hydration ends with a status other than 200 or
\* with a network error leaves the token and the user in memory as they
\* were and starts no hydration; a hydration is started only by a
\* construction or by a step of a getAccessToken or getCurrentUser call.
C29_FailedHydrationIsInert ==
  [][/\ (\E h \in 1..MaxFetches : FailsNow(h)) =>
          /\ currentToken' = currentToken
          /\ currentUser' = currentUser
          /\ Started' = Started
     /\ Started' # Started =>
          \/ Len(constructed') > Len(constructed)
          \/ \E c \in 1..MaxCalls :
               calls'[c] # calls[c] /\ calls'[c].op \in Reads]_vars

\* A hydration failed while a login had filled the memory, and the memory
\* is still filled.
C29_Witness ==
  /\ \E h \in 1..MaxFetches :
       hyd[h].state = "settled" /\ hyd[h].kind \in {"status", "throw"}
  /\ \A h \in 1..MaxFetches : hyd[h].kind # "ok"
  /\ currentToken \in Tokens

(***************************************************************************)
(* The server-side resolver, case by case.                                 *)
(***************************************************************************)
\* C30: getServerUser under 'local' returns, for a user cookie that holds a
\* profile, that profile (its id as a string, its email, and its name or
\* else its email); for no user cookie and a token cookie, the profile
\* whose id is the token and whose name is "Local User"; for neither
\* cookie, null.  Under the hosted provider it returns a user or null and
\* never the exception of the provider's lookup.
C30_ServerUserCases ==
  last.op = "getServerUser" =>
    LET userCookie == jar[OSS_USER_COOKIE]
        token == jar[OSS_TOKEN_COOKIE]
        parsed == JSON_parse(userCookie)
    IN /\ last.user.kind \in {"object", "null"}
       /\ last.provider = "local" =>
            IF ~FalsyText(userCookie)
            THEN parsed.kind = "object" =>
                   /\ last.user.kind = "object"
                   /\ last.user.id = JsString(parsed.id)
                   /\ last.user.email = parsed.email
                   /\ last.user.name
                        = Or(parsed.name, Or(parsed.email, "Local User"))
            ELSE IF ~Falsy(token)
            THEN /\ last.user.kind = "object"
                 /\ last.user.id = token
                 /\ last.user.name = "Local User"
            ELSE last.user = JsNull

\* getServerUser has returned the degraded profile for a token cookie
\* without a user cookie.
C30_Witness ==
  /\ last.op = "getServerUser"
  /\ last.provider = "local"
  /\ FalsyText(jar[OSS_USER_COOKIE])
  /\ jar[OSS_TOKEN_COOKIE] = "tok123"
  /\ last.user.kind = "object"
  /\ last.user.id = "tok123"
  /\ last.user.name = "Local User"

(***************************************************************************)
(* The empty token.                                                        *)
(***************************************************************************)
\* C31: a request for which the token getter resolved to the empty string
\* is sent with the Authorization header it was made with: the interceptor
\* attaches no header built from the empty token.
C31_EmptyTokenNotSent ==
  \A i \in 1..Len(sent) :
    sent[i].getter = Resolves("") =>
      sent[i].request.Authorization = sent[i].given

(***************************************************************************)
(* The two memoized providers.                                             *)
(***************************************************************************)
\* C32: whenever the provider memoized by the gate of part_000 and the
\* provider memoized by config.ts are both set, they are the same value.
C32_SameProvider ==
  (~Falsy(cachedAuthProvider) /\ ~Falsy(configAuthProvider)) =>
    cachedAuthProvider = configAuthProvider

(***************************************************************************)
(* The session route and the token it is given.                            *)
(***************************************************************************)
\* C33: the session route answers a body whose token is missing or empty
\* with 400 and leaves every cookie as it was; a request of the route that
\* changes a cookie carried a token and was answered 200.
C33_MissingTokenRejected ==
  [][last'.op = "session" =>
       /\ (last'.body.valid /\ Falsy(last'.body.token)) =>
            (last'.status = 400 /\ jar' = jar)
       /\ jar' # jar =>
            (~Falsy(last'.body.token) /\ last'.status = 200)]_vars

\* The route has answered 400 to a body with an empty token while the jar
\* held the cookies of a session, and the jar holds them still.
C33_Witness ==
  /\ last.op = "session"
  /\ last.body.valid
  /\ last.body.token = ""
  /\ last.status = 400
  /\ jar[OSS_TOKEN_COOKIE] = "tok123"

(***************************************************************************)
(* The client's and the server's view of the user.                         *)
(***************************************************************************)
SameProfile(a, b) ==
  /\ a.kind = b.kind
  /\ a.kind = "object" =>
       /\ a.id = b.id
       /\ a.name = b.name
       /\ a.provider = b.provider
       /\ a.organizationId = b.organizationId

\* C34: the profile with which the hydration route answers 200 is, in id,
\* name, provider and organizationId, the profile getOSSUser returns on the
\* same cookies.
C34_SameUserBothSides ==
  (last.op = "oss" /\ last.status = 200) =>
    SameProfile(last.user, getOSSUser(jar))

(***************************************************************************)
(* Failed logins and registrations.                                        *)
(***************************************************************************)
\* C35: the step in which a login or register call returns false leaves
\* the token and the user in memory as they were.
C35_FailureKeepsMemory ==
  [][\A c \in 1..MaxCalls :
       ((Returns(c, "login") \/ Returns(c, "register"))
        /\ calls'[c].ret = "false")
         => /\ currentToken' = currentToken
            /\ currentUser' = currentUser]_vars

\* A login has returned false while the memory held the session of the
\* hydration, and the memory holds it still.
C35_Witness ==
  \E c \in 1..MaxCalls :
    /\ Finished(c, "login")
    /\ calls[c].ret = "false"
    /\ hist.epoch = calls[c].epoch
    /\ hyd[1].kind = "ok"
    /\ currentToken = "tok123"
    /\ currentUser = UserA

(***************************************************************************)
(* getAccessToken after logout.                                            *)
(***************************************************************************)
\* C36: a getAccessToken call made after logout has returned, with no
\* login, register or logout begun since, returns the empty string,
\* whether or not the logout request reached its route and whether or not
\* a hydration was in flight when logout ran.
C36_EmptyAfterLogout ==
  \A c \in 1..MaxCalls :
    (/\ Finished(c, "getAccessToken")
     /\ calls[c].after = "loggedOut"
     /\ hist.epoch = calls[c].epoch)
      => calls[c].ret = ""

(***************************************************************************)
(* The login flow.                                                         *)
(***************************************************************************)
Navigating == page.phase = "request" /\ location = AFTER_SIGN_IN

C37_Witness ==
  /\ location = AFTER_SIGN_IN
  /\ page.phase = "mounted"
  /\ page.hops = 0
  /\ last.op = "session"
  /\ jar[OSS_TOKEN_COOKIE] = "tok123"
  /\ jar[OSS_USER_COOKIE] = JSON_stringify(UserA)

====
